---- MODULE Spec2Model ----
(***************************************************************************)
(* Model of the exit-parameter builder of the MetaStable pool              *)
(* (MetaStablePoolExit.buildExitExactBPTIn / buildExitExactTokensOut) and  *)
(* of LinearPoolLiquidity.calcTotal.                                       *)
(*                                                                         *)
(* Every operation is a pure function of its arguments.  A behaviour is    *)
(* one call: Init draws the arguments, one action applies the operation    *)
(* and stores what it returned or threw in `result`.                       *)
(*                                                                         *)
(* Conventions.  An optional value (undefined / empty string in the        *)
(* source) is the empty tuple, a present value v is <<v>>.  Addresses are  *)
(* the unsigned integer value of the hexadecimal string.  Amounts are      *)
(* integers in base units.  Sequences are indexed from 1, the source's     *)
(* arrays from 0: index i of the model is index i-1 of the source, and     *)
(* indexOf's "not found" (-1) is 0.                                        *)
(***************************************************************************)
EXTENDS Integers, Sequences, FiniteSets, TLC

VARIABLES args, result, pc

vars == <<args, result, pc>>

----------------------------------------------------------------------------
(* Bounds of the model *)

\* The fixed-point unit, parseFixed('1', 18) = 10^18 in the source.  The
\* model uses a small unit so that every product fits TLC's integers; the
\* arithmetic is the source's, only the unit is smaller.
ONE == 10

\* Addresses are 1..MaxAddr
MaxAddr == 3

\* Longest list a caller passes (tokensOut, amountsOut, tokenBalances)
MaxLen == 3

----------------------------------------------------------------------------
(* Optional values *)

None == <<>>
Some(v) == <<v>>
Val(o) == o[1]

Addresses == 1..MaxAddr

\* Array.prototype.indexOf, 1-based, 0 when absent
IndexOf(seq, x) ==
  IF \E i \in DOMAIN seq : seq[i] = x
  THEN CHOOSE i \in DOMAIN seq : seq[i] = x /\ \A j \in 1..(i - 1) : seq[j] # x
  ELSE 0

\* All sequences over S of length lo..hi
SeqsOf(S, lo, hi) == UNION {[1..n -> S] : n \in lo..hi}

----------------------------------------------------------------------------
(* Pool snapshots *)

\* A token of the pool: address, decimals (optional number), balance in base
\* units, priceRate (optional, parsed to fixed point)
TokenInfo(a, d, b, r) == [address |-> a, decimals |-> d, balance |-> b, priceRate |-> r]

Pool(toks, amp) ==
  [tokens      |-> toks,
   tokensList  |-> [i \in DOMAIN toks |-> toks[i].address],
   id          |-> "poolId",
   amp         |-> amp,
   totalShares |-> 2 * ONE,
   swapFee     |-> ONE \div 10]

AddressesOf(pool) == [i \in DOMAIN pool.tokens |-> pool.tokens[i].address]

\* pool.tokens.map((t) => t.address).some((a) => a === x)
IsPoolToken(pool, x) == \E i \in DOMAIN pool.tokens : pool.tokens[i].address = x

----------------------------------------------------------------------------
(* Collaborators of the builder *)

\* parsePoolInfo: the snapshot as parallel arrays of parsed numbers
parsePoolInfo(pool) ==
  [parsedTokens      |-> AddressesOf(pool),
   parsedBalances    |-> [i \in DOMAIN pool.tokens |-> pool.tokens[i].balance],
   parsedPriceRates  |-> [i \in DOMAIN pool.tokens |-> pool.tokens[i].priceRate],
   parsedAmp         |-> pool.amp,
   parsedTotalShares |-> pool.totalShares,
   parsedSwapFee     |-> pool.swapFee]

\* AssetHelpers.sortTokens works on rows <<address, other_1, ..., other_k>>:
\* a stable sort of the rows by address, every parallel array permuted alike
InsertRow(row, sorted) ==
  LET k == Cardinality({i \in DOMAIN sorted : sorted[i][1] <= row[1]})
  IN  SubSeq(sorted, 1, k) \o <<row>> \o SubSeq(sorted, k + 1, Len(sorted))

RECURSIVE SortRows(_)
SortRows(rows) ==
  IF rows = <<>> THEN <<>>
  ELSE InsertRow(rows[Len(rows)], SortRows(SubSeq(rows, 1, Len(rows) - 1)))

Column(rows, c) == [i \in DOMAIN rows |-> rows[i][c]]

sortTokens2(tokens, others) ==
  LET rows == SortRows([i \in DOMAIN tokens |-> <<tokens[i], others[i]>>])
  IN  <<Column(rows, 1), Column(rows, 2)>>

sortTokens3(tokens, others1, others2) ==
  LET rows == SortRows([i \in DOMAIN tokens |-> <<tokens[i], others1[i], others2[i]>>])
  IN  <<Column(rows, 1), Column(rows, 2), Column(rows, 3)>>

\* subSlippage: amount * (1 - slippage), rounded down
subSlippage(amount, slippage) == (amount * (ONE - slippage)) \div ONE

\* addSlippage: amount * (1 + slippage), rounded up
addSlippage(amount, slippage) == (amount * (ONE + slippage) + ONE - 1) \div ONE

\* StableMath._calcTokenOutGivenExactBptIn: the invariant solver is a library
\* outside the repository; the model keeps what it is called with and lets it
\* return any amount of the token it is asked about, up to that token's balance
calcTokenOutGivenExactBptIn(amp, balances, tokenIndex, bptAmountIn, bptTotalSupply, swapFee) ==
  0..balances[tokenIndex]

\* StableMath._calcTokensOutGivenExactBptIn: balance_i * (bptIn / totalShares),
\* both steps in fixed point, rounded down
calcTokensOutGivenExactBptIn(balances, bptAmountIn, bptTotalSupply) ==
  LET bptRatio == (bptAmountIn * ONE) \div bptTotalSupply
  IN  [i \in DOMAIN balances |-> (balances[i] * bptRatio) \div ONE]

\* StableMath._calcBptInGivenExactTokensOut: as above, any amount of shares up
\* to the total supply
calcBptInGivenExactTokensOut(amp, balances, amountsOut, bptTotalSupply, swapFee) ==
  0..bptTotalSupply

\* WeightedPoolEncoder: the three userData encodings
exitExactBPTInForOneTokenOut(bptAmountIn, exitTokenIndex) ==
  [kind |-> "EXACT_BPT_IN_FOR_ONE_TOKEN_OUT", bptAmountIn |-> bptAmountIn,
   exitTokenIndex |-> exitTokenIndex]

exitExactBPTInForTokensOut(bptAmountIn) ==
  [kind |-> "EXACT_BPT_IN_FOR_TOKENS_OUT", bptAmountIn |-> bptAmountIn]

exitBPTInForExactTokensOut(amountsOut, maxBPTAmountIn) ==
  [kind |-> "BPT_IN_FOR_EXACT_TOKENS_OUT", amountsOut |-> amountsOut,
   maxBPTAmountIn |-> maxBPTAmountIn]

\* Vault interface encodeFunctionData: the call data is the function name and
\* its four arguments in order
encodeFunctionData(functionName, attributes) ==
  <<functionName, attributes.poolId, attributes.sender, attributes.recipient,
    attributes.exitPoolRequest>>

----------------------------------------------------------------------------
(* What a call gives back *)

\* The stages of the pipeline a call went through before it ended
AllStages == <<"parse", "sort", "scale", "solve", "bound", "encode">>

\* A thrown BalancerError: no payload, and the stages done before the throw
Thrown(code, stages) ==
  [error |-> code, stages |-> stages, returned |-> None, calc |-> None]

\* A returned ExitPoolAttributes, with the intermediate values of the call
Returned(payload, calc) ==
  [error |-> "NONE", stages |-> AllStages, returned |-> Some(payload), calc |-> Some(calc)]

\* The object both builders return
ExitPoolAttributes(exiter, pool, assets, minAmountsOut, userData, limits, maxBPTIn) ==
  LET attributes ==
        [poolId |-> pool.id, sender |-> exiter, recipient |-> exiter,
         exitPoolRequest |->
           [assets |-> assets, minAmountsOut |-> limits, userData |-> userData,
            toInternalBalance |-> FALSE]]
  IN  [to            |-> "balancerVault",
       functionName  |-> "exitPool",
       attributes    |-> attributes,
       data          |-> encodeFunctionData("exitPool", attributes),
       minAmountsOut |-> minAmountsOut,
       maxBPTIn      |-> maxBPTIn]

----------------------------------------------------------------------------
(* MetaStablePoolExit.buildExitExactBPTIn *)

\* !token.decimals: undefined and the number 0 are both falsy
DecimalsMissing(token) == token.decimals = None \/ Val(token.decimals) = 0

\* !token.priceRate, !pool.amp: strings, falsy when undefined or empty
PriceRateMissing(token) == token.priceRate = None

\* The same checks with the pool's metadata looked at before the target token
validateExactBPTIn_metadataFirst(pool, bptIn, singleTokenMaxOut) ==
  IF bptIn = None \/ Val(bptIn) < 0 THEN "INPUT_OUT_OF_BOUNDS"
  ELSE IF \E i \in DOMAIN pool.tokens : DecimalsMissing(pool.tokens[i])
    THEN "MISSING_DECIMALS"
  ELSE IF pool.amp = None THEN "MISSING_AMP"
  ELSE IF \E i \in DOMAIN pool.tokens : PriceRateMissing(pool.tokens[i])
    THEN "MISSING_PRICE_RATE"
  ELSE IF singleTokenMaxOut # None /\ ~IsPoolToken(pool, Val(singleTokenMaxOut))
    THEN "TOKEN_MISMATCH"
  ELSE "OK"

\* The checks at the head of buildExitExactBPTIn, in their order
validateExactBPTIn(pool, bptIn, singleTokenMaxOut) ==
  IF bptIn = None \/ Val(bptIn) < 0 THEN "INPUT_OUT_OF_BOUNDS"
  ELSE IF singleTokenMaxOut # None /\ ~IsPoolToken(pool, Val(singleTokenMaxOut))
    THEN "TOKEN_MISMATCH"
  ELSE IF \E i \in DOMAIN pool.tokens : DecimalsMissing(pool.tokens[i])
    THEN "MISSING_DECIMALS"
  ELSE IF pool.amp = None THEN "MISSING_AMP"
  ELSE IF \E i \in DOMAIN pool.tokens : PriceRateMissing(pool.tokens[i])
    THEN "MISSING_PRICE_RATE"
  ELSE "OK"

\* scale balances based on price rate for each token: balance * rate / 10^18
scaleByPriceRate(amount, priceRate) == (amount * priceRate) \div ONE

\* reverse scaled amount out based on token price rate: the source divides by
\* the rate first and multiplies by 10^18 afterwards
reverseScaled(scaledAmount, priceRate) == (scaledAmount \div priceRate) * ONE

\* const singleTokenMaxOutIndex = parsedTokens.indexOf(singleTokenMaxOut)
singleTokenMaxOutIndex(parsedTokens, sortedTokens, singleTokenMaxOut) ==
  IndexOf(parsedTokens, singleTokenMaxOut)

\* The set of results the call can end with: one, but for the single-token
\* exit, where there is one for each amount the solver may return
buildExitExactBPTIn(exiter, pool, bptIn, slippage, singleTokenMaxOut) ==
  LET err == validateExactBPTIn(pool, bptIn, singleTokenMaxOut)
  IN
  IF err # "OK" THEN {Thrown(err, <<>>)}
  ELSE
    LET p == parsePoolInfo(pool)
        sorted == sortTokens3(p.parsedTokens, p.parsedBalances, p.parsedPriceRates)
        sortedTokens == sorted[1]
        sortedBalances == sorted[2]
        sortedPriceRates == [i \in DOMAIN sorted[3] |-> Val(sorted[3][i])]
        scaledBalances ==
          [i \in DOMAIN sortedBalances |->
             scaleByPriceRate(sortedBalances[i], sortedPriceRates[i])]
        n == Len(p.parsedTokens)
    IN
    IF singleTokenMaxOut # None
    THEN
      LET index == singleTokenMaxOutIndex(p.parsedTokens, sortedTokens, Val(singleTokenMaxOut))
      IN  { LET amountOut == reverseScaled(scaledAmountOut, sortedPriceRates[index])
                minAmountsOut ==
                  [i \in 1..n |-> IF i = index THEN subSlippage(amountOut, slippage) ELSE 0]
                userData == exitExactBPTInForOneTokenOut(Val(bptIn), index)
            IN  Returned(
                  ExitPoolAttributes(exiter, pool, sortedTokens, minAmountsOut, userData,
                                     minAmountsOut, Val(bptIn)),
                  [solver |-> "_calcTokenOutGivenExactBptIn", solverIndex |-> index,
                   rateIndex |-> index, scaledBalances |-> scaledBalances,
                   amountsOut |-> [i \in 1..n |-> IF i = index THEN amountOut ELSE 0]])
            : scaledAmountOut \in
                calcTokenOutGivenExactBptIn(Val(p.parsedAmp), scaledBalances, index,
                                            Val(bptIn), p.parsedTotalShares, p.parsedSwapFee) }
    ELSE
      LET scaledAmountsOut ==
            calcTokensOutGivenExactBptIn(scaledBalances, Val(bptIn), p.parsedTotalShares)
          amountsOut ==
            [i \in DOMAIN scaledAmountsOut |->
               reverseScaled(scaledAmountsOut[i], sortedPriceRates[i])]
          minAmountsOut ==
            [i \in DOMAIN amountsOut |-> subSlippage(amountsOut[i], slippage)]
          userData == exitExactBPTInForTokensOut(Val(bptIn))
      IN  { Returned(
              ExitPoolAttributes(exiter, pool, sortedTokens, minAmountsOut, userData,
                                 minAmountsOut, Val(bptIn)),
              [solver |-> "_calcTokensOutGivenExactBptIn", solverIndex |-> 0,
               rateIndex |-> 0, scaledBalances |-> scaledBalances,
               amountsOut |-> amountsOut]) }

----------------------------------------------------------------------------
(* MetaStablePoolExit.buildExitExactTokensOut *)

\* The check without the comparison of tokensOut with amountsOut
validateExactTokensOut_poolOnly(pool, tokensOut, amountsOut) ==
  IF Len(tokensOut) # Len(pool.tokensList)
  THEN "INPUT_LENGTH_MISMATCH"
  ELSE "OK"

\* The check at the head of buildExitExactTokensOut
validateExactTokensOut(pool, tokensOut, amountsOut) ==
  IF Len(tokensOut) # Len(amountsOut) \/ Len(tokensOut) # Len(pool.tokensList)
  THEN "INPUT_LENGTH_MISMATCH"
  ELSE "OK"

\* The bound taken in the wrong direction
maxBPTInOf_sub(bptIn, slippage) == subSlippage(bptIn, slippage)

\* const maxBPTIn = addSlippage(BigNumber.from(bptIn), BigNumber.from(slippage))
maxBPTInOf(bptIn, slippage) == addSlippage(bptIn, slippage)

\* The requested amounts left in the caller's order
sortedAmountsOf_unsorted(tokensOut, amountsOut) == amountsOut

\* const [sortedTokens, sortedAmounts] = sortTokens(tokensOut, amountsOut):
\* the requested amounts, taken along with their addresses
sortedAmountsOf(tokensOut, amountsOut) == sortTokens2(tokensOut, amountsOut)[2]

buildExitExactTokensOut(exiter, pool, tokensOut, amountsOut, slippage) ==
  LET err == validateExactTokensOut(pool, tokensOut, amountsOut)
  IN
  IF err # "OK" THEN {Thrown(err, <<>>)}
  \* Not reached after the check above: sortTokens takes parallel arrays of one
  \* length, and the scaling reads one price rate for each requested amount
  ELSE IF Len(tokensOut) # Len(amountsOut) \/ Len(tokensOut) # Len(pool.tokens)
    THEN {Thrown("ASSERTION_FAILED", <<"parse">>)}
  ELSE
    LET p == parsePoolInfo(pool)
        sortedPool == sortTokens3(p.parsedTokens, p.parsedBalances, p.parsedPriceRates)
        sortedPoolTokens == sortedPool[1]
        sortedBalances == sortedPool[2]
        sortedPriceRates == [i \in DOMAIN sortedPool[3] |-> Val(sortedPool[3][i])]
        sortedOut == sortTokens2(tokensOut, amountsOut)
        sortedTokens == sortedOut[1]
        sortedAmounts == sortedAmountsOf(tokensOut, amountsOut)
        scaledAmounts ==
          [i \in DOMAIN sortedAmounts |->
             scaleByPriceRate(sortedAmounts[i], sortedPriceRates[i])]
        scaledBalances ==
          [i \in DOMAIN sortedBalances |->
             scaleByPriceRate(sortedBalances[i], sortedPriceRates[i])]
    IN  { LET maxBPTIn == maxBPTInOf(bptIn, slippage)
              userData == exitBPTInForExactTokensOut(sortedAmounts, maxBPTIn)
          IN  Returned(
                ExitPoolAttributes(exiter, pool, sortedTokens, sortedAmounts, userData,
                                   sortedAmounts, maxBPTIn),
                [solver |-> "_calcBptInGivenExactTokensOut", bptIn |-> bptIn,
                 sortedPoolTokens |-> sortedPoolTokens,
                 sortedPriceRates |-> sortedPriceRates,
                 scaledBalances |-> scaledBalances, scaledAmounts |-> scaledAmounts])
          : bptIn \in
              calcBptInGivenExactTokensOut(Val(p.parsedAmp), scaledBalances, scaledAmounts,
                                           p.parsedTotalShares, p.parsedSwapFee) }

----------------------------------------------------------------------------
(* LinearPoolLiquidity.calcTotal *)

\* A TokenBalance: balance and the optional USD price and price rate, each
\* already parsed to fixed point (parseFixed(string, SCALING_FACTOR))
TokenBalance(b, price, r) == [balance |-> b, price |-> price, priceRate |-> r]

\* !tokenBalance.token.price?.usd
PriceUnknown(tb) == tb.price = None

\* The guard letting a zero sum through
backfillRuns_gte(sumBalance) == sumBalance >= 0

\* if (sumBalance.gt(0))
backfillRuns(sumBalance) == sumBalance > 0

RECURSIVE SumSeq(_)
SumSeq(seq) == IF seq = <<>> THEN 0 ELSE seq[Len(seq)] + SumSeq(SubSeq(seq, 1, Len(seq) - 1))

\* formatFixed(value, decimals): the decimal string, as whole part and
\* fraction digits
formatFixed(value, unit) == <<value \div unit, value % unit>>

calcTotal(tokenBalances) ==
  LET knownValue ==
        SumSeq([i \in DOMAIN tokenBalances |->
                  IF PriceUnknown(tokenBalances[i]) THEN 0
                  ELSE tokenBalances[i].balance * Val(tokenBalances[i].price)])
      knownBalance ==
        SumSeq([i \in DOMAIN tokenBalances |->
                  IF PriceUnknown(tokenBalances[i]) THEN 0
                  ELSE tokenBalances[i].balance])
  IN
  IF backfillRuns(knownBalance)
  THEN
    \* BigNumber.div throws on a zero divisor
    IF knownBalance = 0 THEN Thrown("NUMERIC_FAULT", <<"sum">>)
    ELSE
      LET avgPrice == knownValue \div knownBalance
          backfill ==
            SumSeq([i \in DOMAIN tokenBalances |->
                      IF ~PriceUnknown(tokenBalances[i]) THEN 0
                      ELSE LET priceRate ==
                                 IF tokenBalances[i].priceRate = None THEN ONE
                                 ELSE Val(tokenBalances[i].priceRate)
                               balance == (tokenBalances[i].balance * priceRate) \div ONE
                           IN  balance * avgPrice])
      IN  [error |-> "NONE", stages |-> <<"sum", "backfill">>,
           returned |-> Some(formatFixed(knownValue + backfill, ONE * ONE)),
           calc |-> Some([sumValue |-> knownValue + backfill])]
  ELSE [error |-> "NONE", stages |-> <<"sum">>,
        returned |-> Some(formatFixed(knownValue, ONE * ONE)),
        calc |-> Some([sumValue |-> knownValue])]

----------------------------------------------------------------------------
(* The price-rate scaling of the builders, applied to one amount *)

priceRateRoundTrip(amount, priceRate) ==
  LET scaled == scaleByPriceRate(amount, priceRate)
  IN  [error |-> "NONE", stages |-> <<"scale", "reverse">>,
       returned |-> Some(reverseScaled(scaled, priceRate)),
       calc |-> Some([scaled |-> scaled])]

----------------------------------------------------------------------------
(* Arguments of the calls *)

Optional(S) == {None} \cup {Some(v) : v \in S}

Balances == {ONE \div 2 + 2, 2 * ONE}
PriceRates == {ONE, 2 * ONE}
Slippages == {0, ONE \div 10, ONE + ONE \div 2}

\* Tokens as a data provider may supply them, metadata missing or not
TokenInfos ==
  {TokenInfo(a, d, b, r) :
     a \in Addresses, d \in Optional({0, 18}), b \in Balances, r \in Optional(PriceRates)}

\* Tokens with all metadata
CompleteTokenInfos ==
  {t \in TokenInfos : ~DecimalsMissing(t) /\ ~PriceRateMissing(t)}

\* A MetaStable pool holds two tokens, in any order of their addresses
TokenLists(infos) ==
  {toks \in {<<t1, t2>> : t1 \in infos, t2 \in infos} : toks[1].address # toks[2].address}

\* The arguments of one call of each operation
ArgsExactBPTIn(toks, amp, bptIn, slippage, singleTokenMaxOut) ==
  [op |-> "buildExitExactBPTIn", exiter |-> "exiter", pool |-> Pool(toks, amp),
   bptIn |-> bptIn, slippage |-> slippage, singleTokenMaxOut |-> singleTokenMaxOut]

ArgsExactTokensOut(toks, tokensOut, amountsOut, slippage) ==
  [op |-> "buildExitExactTokensOut", exiter |-> "exiter", pool |-> Pool(toks, Some(100)),
   tokensOut |-> tokensOut, amountsOut |-> amountsOut, slippage |-> slippage]

ArgsCalcTotal(tokenBalances) == [op |-> "calcTotal", tokenBalances |-> tokenBalances]

ArgsPriceRate(amount, priceRate) ==
  [op |-> "priceRateRoundTrip", amount |-> amount, priceRate |-> priceRate]

TokenBalances ==
  {TokenBalance(b, price, r) :
     b \in {0, ONE \div 2, 2 * ONE},
     price \in Optional({ONE, ONE + ONE \div 2}),
     r \in Optional({2 * ONE})}

----------------------------------------------------------------------------
(* The calls *)

BuildExitExactBPTIn ==
  /\ pc = "call"
  /\ args.op = "buildExitExactBPTIn"
  /\ result' \in buildExitExactBPTIn(args.exiter, args.pool, args.bptIn, args.slippage,
                                     args.singleTokenMaxOut)
  /\ pc' = "done"
  /\ UNCHANGED args

BuildExitExactTokensOut ==
  /\ pc = "call"
  /\ args.op = "buildExitExactTokensOut"
  /\ result' \in buildExitExactTokensOut(args.exiter, args.pool, args.tokensOut,
                                         args.amountsOut, args.slippage)
  /\ pc' = "done"
  /\ UNCHANGED args

CalcTotal ==
  /\ pc = "call"
  /\ args.op = "calcTotal"
  /\ result' = calcTotal(args.tokenBalances)
  /\ pc' = "done"
  /\ UNCHANGED args

PriceRateRoundTrip ==
  /\ pc = "call"
  /\ args.op = "priceRateRoundTrip"
  /\ result' = priceRateRoundTrip(args.amount, args.priceRate)
  /\ pc' = "done"
  /\ UNCHANGED args

Pending ==
  /\ result = Thrown("PENDING", <<>>)
  /\ pc = "call"

InitExactBPTIn ==
  /\ \E toks \in TokenLists(TokenInfos), amp \in Optional({100}),
        bptIn \in Optional({0 - ONE, ONE, 2 * ONE}), slippage \in Slippages,
        singleTokenMaxOut \in Optional(Addresses) :
       args = ArgsExactBPTIn(toks, amp, bptIn, slippage, singleTokenMaxOut)
  /\ Pending

InitExactTokensOut ==
  /\ \E toks \in TokenLists({t \in CompleteTokenInfos : t.balance = 2 * ONE}),
        tokensOut \in SeqsOf(Addresses, 0, MaxLen),
        amountsOut \in SeqsOf({1, ONE \div 2}, 0, MaxLen), slippage \in Slippages :
       args = ArgsExactTokensOut(toks, tokensOut, amountsOut, slippage)
  /\ Pending

InitCalcTotal ==
  /\ \E tokenBalances \in SeqsOf(TokenBalances, 0, MaxLen) :
       args = ArgsCalcTotal(tokenBalances)
  /\ Pending

InitPriceRate ==
  /\ \E amount \in 0..(3 * ONE), priceRate \in {ONE \div 2, ONE, ONE + ONE \div 2, 2 * ONE} :
       args = ArgsPriceRate(amount, priceRate)
  /\ Pending

Init == InitExactBPTIn \/ InitExactTokensOut \/ InitCalcTotal \/ InitPriceRate

Next == BuildExitExactBPTIn \/ BuildExitExactTokensOut \/ CalcTotal \/ PriceRateRoundTrip

Spec == Init /\ [][Next]_vars

\* One operation at a time
SpecExactBPTIn == InitExactBPTIn /\ [][BuildExitExactBPTIn]_vars

SpecExactTokensOut == InitExactTokensOut /\ [][BuildExitExactTokensOut]_vars

SpecCalcTotal == InitCalcTotal /\ [][CalcTotal]_vars

SpecPriceRate == InitPriceRate /\ [][PriceRateRoundTrip]_vars

\* The two exit builders
SpecExit ==
  /\ (InitExactBPTIn \/ InitExactTokensOut)
  /\ [][BuildExitExactBPTIn \/ BuildExitExactTokensOut]_vars

----------------------------------------------------------------------------
(* Properties *)

Done(op) == pc = "done" /\ args.op = op
Ok == result.error = "NONE"
Payload == Val(result.returned)
Calc == Val(result.calc)
Request == Payload.attributes.exitPoolRequest
BalanceOf(pool, a) == pool.tokens[IndexOf(AddressesOf(pool), a)].balance

\* C1: in a single-token exact-BPT-in exit, the index given to the solver, the
\* index of the price rate used to de-normalize, the exit-token index of
\* userData and the only non-zero entry of minAmountsOut are all the position
\* of the target token in the returned assets, whatever order the pool lists
\* its tokens in.
C1_TargetIndexIsAssetPosition ==
  (Done("buildExitExactBPTIn") /\ Ok /\ args.singleTokenMaxOut # None) =>
    LET target == Val(args.singleTokenMaxOut)
        k == IndexOf(Request.assets, target)
    IN  /\ Calc.solverIndex = k
        /\ Calc.rateIndex = k
        /\ Request.userData.exitTokenIndex = k
        /\ \A i \in DOMAIN Request.assets :
             Request.assets[i] # target => Payload.minAmountsOut[i] = 0

\* C2: de-normalizing a normalized amount x with a price rate r > 0 gives a
\* result that is at most x and is short of x by no more than the one base
\* unit each of the two integer divisions can lose.
C2_RoundTripWithinTruncation ==
  Done("priceRateRoundTrip") =>
    /\ Payload <= args.amount
    /\ args.amount - Payload <= 2

\* C3: a proportional exact-BPT-in exit of all the pool's shares computes, for
\* every token, its full balance as the amount out; with slippage 0 this is
\* the returned minimum.
C3_FullExitReturnsBalances ==
  (/\ Done("buildExitExactBPTIn") /\ Ok
   /\ args.singleTokenMaxOut = None
   /\ args.bptIn = Some(args.pool.totalShares)) =>
    \A i \in DOMAIN Request.assets :
      /\ Calc.amountsOut[i] = BalanceOf(args.pool, Request.assets[i])
      /\ args.slippage = 0 =>
           Payload.minAmountsOut[i] = BalanceOf(args.pool, Request.assets[i])

\* C4: slippage bounds are one-sided: subSlippage(a, s) <= a <= addSlippage(a, s)
\* for the amounts the builders bound, so every minAmountsOut[i] of an
\* exact-BPT-in exit is at most the amount out computed for that token and the
\* maxBPTIn of an exact-tokens-out exit is at least the shares the solver
\* computed.
C4_SlippageOneSided ==
  /\ (Done("buildExitExactBPTIn") /\ Ok) =>
       \A i \in DOMAIN Calc.amountsOut :
         /\ subSlippage(Calc.amountsOut[i], args.slippage) <= Calc.amountsOut[i]
         /\ Calc.amountsOut[i] <= addSlippage(Calc.amountsOut[i], args.slippage)
         /\ Payload.minAmountsOut[i] <= Calc.amountsOut[i]
  /\ (Done("buildExitExactTokensOut") /\ Ok) =>
       /\ subSlippage(Calc.bptIn, args.slippage) <= Calc.bptIn
       /\ Calc.bptIn <= addSlippage(Calc.bptIn, args.slippage)
       /\ Payload.maxBPTIn >= Calc.bptIn

C4_Witness ==
  /\ Done("buildExitExactTokensOut") /\ Ok
  /\ args.slippage > 0
  /\ Payload.maxBPTIn > Calc.bptIn

\* C5: buildExitExactTokensOut throws INPUT_LENGTH_MISMATCH exactly when
\* tokensOut and amountsOut differ in length or tokensOut differs in length
\* from the pool's tokens, and then nothing was computed and nothing is
\* returned.
C5_LengthMismatchIff ==
  Done("buildExitExactTokensOut") =>
    /\ (result.error = "INPUT_LENGTH_MISMATCH") <=>
         (\/ Len(args.tokensOut) # Len(args.amountsOut)
          \/ Len(args.tokensOut) # Len(args.pool.tokens))
    /\ result.error = "INPUT_LENGTH_MISMATCH" =>
         (result.returned = None /\ result.stages = <<>>)

C5_Witness ==
  /\ Done("buildExitExactTokensOut")
  /\ Len(args.tokensOut) # Len(args.amountsOut)
  /\ Len(args.tokensOut) > 0
  /\ Len(args.amountsOut) = Len(args.pool.tokens)
  /\ result.error = "INPUT_LENGTH_MISMATCH"

\* C6: with a usable bptIn, a singleTokenMaxOut that is no token of the pool
\* makes buildExitExactBPTIn throw TOKEN_MISMATCH before anything is computed,
\* also when decimals, amp or price rates are missing.
C6_TokenMismatchFirst ==
  (/\ Done("buildExitExactBPTIn")
   /\ args.bptIn # None /\ Val(args.bptIn) >= 0
   /\ args.singleTokenMaxOut # None
   /\ ~IsPoolToken(args.pool, Val(args.singleTokenMaxOut))) =>
    /\ result.error = "TOKEN_MISMATCH"
    /\ result.stages = <<>>
    /\ result.returned = None

C6_Witness ==
  /\ Done("buildExitExactBPTIn")
  /\ args.bptIn # None /\ Val(args.bptIn) >= 0
  /\ args.singleTokenMaxOut # None
  /\ ~IsPoolToken(args.pool, Val(args.singleTokenMaxOut))
  /\ \E i \in DOMAIN args.pool.tokens : args.pool.tokens[i].decimals = None
  /\ \E i \in DOMAIN args.pool.tokens : args.pool.tokens[i].priceRate = None
  /\ args.pool.amp = None
  /\ result.error = "TOKEN_MISMATCH"

\* C7: buildExitExactBPTIn returns attributes exactly when bptIn is non-empty
\* and non-negative, singleTokenMaxOut (if given) is a token of the pool,
\* every token has a decimals value (0 included), amp is present and every
\* token has a price rate; otherwise it throws the error of a violated
\* condition and returns nothing.
C7_Errors ==
  (IF args.bptIn = None \/ Val(args.bptIn) < 0 THEN {"INPUT_OUT_OF_BOUNDS"} ELSE {})
  \cup (IF args.singleTokenMaxOut # None /\ ~IsPoolToken(args.pool, Val(args.singleTokenMaxOut))
        THEN {"TOKEN_MISMATCH"} ELSE {})
  \cup (IF \E i \in DOMAIN args.pool.tokens : args.pool.tokens[i].decimals = None
        THEN {"MISSING_DECIMALS"} ELSE {})
  \cup (IF args.pool.amp = None THEN {"MISSING_AMP"} ELSE {})
  \cup (IF \E i \in DOMAIN args.pool.tokens : args.pool.tokens[i].priceRate = None
        THEN {"MISSING_PRICE_RATE"} ELSE {})

C7_ReturnsIffValid ==
  Done("buildExitExactBPTIn") =>
    /\ (Ok /\ result.returned # None) <=> (C7_Errors = {})
    /\ C7_Errors # {} => (result.error \in C7_Errors /\ result.returned = None)

\* C8: buildExitExactTokensOut returns the requested amounts themselves as
\* minimums, reordered with their addresses: (assets[i], minAmountsOut[i]) is a
\* permutation of (tokensOut[k], amountsOut[k]); the same list is the request's
\* limits and userData's amounts, and slippage is applied to maxBPTIn alone.
C8_ExactAmountsAsMinimums ==
  (Done("buildExitExactTokensOut") /\ Ok) =>
    /\ \E f \in [DOMAIN Request.assets -> DOMAIN args.tokensOut] :
         /\ \A i, j \in DOMAIN f : f[i] = f[j] => i = j
         /\ \A i \in DOMAIN f :
              /\ Request.assets[i] = args.tokensOut[f[i]]
              /\ Payload.minAmountsOut[i] = args.amountsOut[f[i]]
    /\ Len(Request.assets) = Len(args.tokensOut)
    /\ Request.minAmountsOut = Payload.minAmountsOut
    /\ Request.userData.amountsOut = Payload.minAmountsOut
    /\ Payload.maxBPTIn = addSlippage(Calc.bptIn, args.slippage)
    /\ Request.userData.maxBPTAmountIn = Payload.maxBPTIn

C8_Witness ==
  /\ Done("buildExitExactTokensOut") /\ Ok
  /\ args.tokensOut[1] > args.tokensOut[2]
  /\ args.amountsOut[1] # args.amountsOut[2]
  /\ args.slippage > 0
  /\ Payload.minAmountsOut = <<args.amountsOut[2], args.amountsOut[1]>>
  /\ Payload.maxBPTIn > Calc.bptIn

\* C9: whenever buildExitExactTokensOut passes its length check, the sorted
\* tokensOut and the sorted pool tokens hold the same address at every
\* position, so each requested amount meets the price rate and the balance of
\* its own token.
C9_ConsistentlySorted ==
  (Done("buildExitExactTokensOut") /\ Ok) =>
    \A i \in DOMAIN Request.assets : Request.assets[i] = Calc.sortedPoolTokens[i]

\* C10: calcTotal returns a zero liquidity, and throws nothing, whenever no
\* token has a known USD price; the backfill runs only when the balances of
\* the priced tokens sum to more than zero.
C10_PricedBalance ==
  SumSeq([i \in DOMAIN args.tokenBalances |->
            IF args.tokenBalances[i].price = None THEN 0
            ELSE args.tokenBalances[i].balance])

C10_ZeroWithoutPrices ==
  Done("calcTotal") =>
    /\ (\A i \in DOMAIN args.tokenBalances : args.tokenBalances[i].price = None) =>
         (Ok /\ result.returned = Some(<<0, 0>>))
    /\ (\E k \in DOMAIN result.stages : result.stages[k] = "backfill") =>
         C10_PricedBalance > 0
    /\ C10_PricedBalance > 0 => Ok

C10_Witness ==
  /\ Done("calcTotal")
  /\ Len(args.tokenBalances) >= 2
  /\ \A i \in DOMAIN args.tokenBalances : args.tokenBalances[i].price = None
  /\ \E i \in DOMAIN args.tokenBalances :
       args.tokenBalances[i].balance > 0 /\ args.tokenBalances[i].priceRate # None
  /\ Ok /\ result.returned = Some(<<0, 0>>)

====
